---- MODULE Spec2Model ----
(***************************************************************************)
(* mistFan: a three-button controller for a mist solenoid and a fan.       *)
(* The model follows src/src/main.cpp.  The arduino-timer scheduler and    *)
(* the OneButton gesture detector are libraries outside the repository;    *)
(* they are modelled from the contract the specification gives them.       *)
(* Times are in milliseconds.                                              *)
(***************************************************************************)
EXTENDS Integers, Sequences, FiniteSets, TLC

\* ------------------------------------------------------------------ bounds
\* gestures begun (click, double click, multi click, long press start) in a
\* bounded run
MaxGestures == 2
\* timer callbacks fired in a bounded run
MaxFirings == 3
\* largest click count a multi click reports
MaxClicks == 6

\* --------------------------------------------------------------- constants
\* significand bits of a double
DoubleBits == 53
\* bits of a limb in the multiplication of significands
LimbBits == 15
\* settings::delays::timeout
timeout == 7200000
\* settings::pwm::precision
precision == 8

Buttons == {"One", "Two", "Three"}
\* how long after the previous event a gesture may be recognised, besides
\* exactly at a timer event
GestureDelays == {0, 500}
ClickCounts == 3..MaxClicks

VARIABLES
  mistState,                      \* currentValue.mistState
  mistPin,                        \* level of pins::mistSwitch
  fanDuty,                        \* duty written to pwm::channel::fan
  tasks,                          \* the timer's tasks, in registration order
  mistForDurationRepeatingTask,   \* handle, 0 = none
  timeoutTimerTask,               \* handle, 0 = none
  isLongPressed,                  \* per button: OneButton::isLongPressed()
  \* ---- observation of the run (history)
  event,                          \* the step just taken
  lastCall,                       \* the writeMistState call of that step
  lastPwm,                        \* the ledcWrite call of that step
  pre,                            \* summary of the state before that step
  sinceGesture,                   \* ms since the last gesture callback (or setup)
  timeoutFired,                   \* timeout firings since then (capped at 2)
  holdingOne,                     \* between longPressOne and longPressStopOne
  cancelled,                      \* clickThree ran, no cycle requested since
  ngest,                          \* gestures begun
  nfired,                         \* timer callbacks fired (bounded run)
  lastGesture,                    \* the last gesture callback run
  mode                            \* how far the run is explored

vars == <<mistState, mistPin, fanDuty, tasks, mistForDurationRepeatingTask,
          timeoutTimerTask, isLongPressed, event, lastCall, lastPwm, pre,
          sinceGesture,
          timeoutFired, holdingOne, cancelled, ngest, nfired,
                 lastGesture, mode>>

\* ------------------------------------------------------- device state
NoCall == [called |-> FALSE, req |-> FALSE, cached |-> FALSE, wrote |-> FALSE,
           prevPin |-> FALSE]
NoPwm == [called |-> FALSE, duty |-> 0]

\* The part of the program state the handlers read and write.
Machine ==
  [mistState |-> mistState, mistPin |-> mistPin, fanDuty |-> fanDuty,
   tasks |-> tasks, rep |-> mistForDurationRepeatingTask,
   tmo |-> timeoutTimerTask, call |-> NoCall, pwm |-> NoPwm]

setMistState(m, state) == [m EXCEPT !.mistState = state]
getMistState(m) == m.mistState

digitalWriteMist(m, state) == [m EXCEPT !.mistPin = state]

\* writeMistState without its write-on-change test
WriteMistStateAlways(m, state) ==
  LET c == [called |-> TRUE, req |-> state, cached |-> getMistState(m),
            wrote |-> TRUE, prevPin |-> m.mistPin]
  IN  [setMistState(digitalWriteMist(m, state), state) EXCEPT !.call = c]

writeMistState(m, state) ==
  LET c == [called |-> TRUE, req |-> state, cached |-> getMistState(m),
            wrote |-> FALSE, prevPin |-> m.mistPin]
  IN  IF (state /\ ~getMistState(m)) \/ (~state /\ getMistState(m))
      THEN [setMistState(digitalWriteMist(m, state), state)
              EXCEPT !.call = [c EXCEPT !.wrote = TRUE]]
      ELSE [m EXCEPT !.call = c]

mistOn(m) == writeMistState(m, TRUE)
mistOff(m) == writeMistState(m, FALSE)

RECURSIVE Pow2(_)
Pow2(n) == IF n = 0 THEN 1 ELSE 2 * Pow2(n - 1)

calculateMaxDutyFromPrecision(p) == Pow2(p) - 1

\* The duty is computed in double precision (binary64) and converted to
\* uint32_t; the arithmetic is modelled bit by bit.
\* ---- numbers as sequences of bits, least significant first
BitAt(n, i) == (n \div Pow2(i)) % 2
BitsOf(n) == [i \in 1..31 |-> BitAt(n, i - 1)]
RECURSIVE ValueOf(_)
ValueOf(bits) ==
  IF Len(bits) = 0 THEN 0
  ELSE IF Len(bits) = 1 THEN bits[1]
  ELSE LET h == Len(bits) \div 2
       IN  ValueOf(SubSeq(bits, 1, h))
             + Pow2(h) * ValueOf(SubSeq(bits, h + 1, Len(bits)))
Zeros(bits) == {i \in 1..Len(bits) : bits[i] = 0}
Inc(bits) ==
  IF Zeros(bits) = {} THEN [i \in 1..(Len(bits) + 1) |-> IF i > Len(bits) THEN 1 ELSE 0]
  ELSE LET z == CHOOSE i \in Zeros(bits) : \A j \in Zeros(bits) : i <= j
       IN  [i \in 1..Len(bits) |->
              IF i < z THEN 0 ELSE IF i = z THEN 1 ELSE bits[i]]
TopBit(bits) ==
  IF \E i \in 1..Len(bits) : bits[i] = 1
  THEN CHOOSE i \in 1..Len(bits) :
         bits[i] = 1 /\ \A j \in (i + 1)..Len(bits) : bits[j] = 0
  ELSE 0
\* ---- binary64: a finite value >= 0 is sig * 2^exp, sig of at most 53 bits
\* round to nearest, ties to even
RoundToDouble(x) ==
  LET top == TopBit(x.sig)
      s == top - DoubleBits
  IN  IF s <= 0 THEN [sig |-> SubSeq(x.sig, 1, top), exp |-> x.exp]
      ELSE LET kept == SubSeq(x.sig, s + 1, top)
               half == x.sig[s] = 1
               sticky == \E i \in 1..(s - 1) : x.sig[i] = 1
               up == half /\ (sticky \/ kept[1] = 1)
           IN  [sig |-> IF up THEN Inc(kept) ELSE kept, exp |-> x.exp + s]
RECURSIVE PowMod2(_, _)
PowMod2(i, m) ==
  IF i = 0 THEN 1 % m
  ELSE LET h == PowMod2(i \div 2, m)
       IN  (((h * h) % m) * (IF i % 2 = 1 THEN 2 ELSE 1)) % m
RECURSIVE LeadingZeros(_, _)
LeadingZeros(r, den) ==
  IF r = 0 \/ 2 * r >= den THEN 0 ELSE 1 + LeadingZeros(2 * r, den)
\* bit i after the binary point of r / den, for r < den
FractionBit(r, den, i) ==
  IF (r * PowMod2(i, 2 * den)) % (2 * den) >= den THEN 1 ELSE 0
\* num / den for integers num >= 0, den > 0: the quotient to 55 significant
\* bits and a sticky bit, rounded
DoubleQuotient(num, den) ==
  LET r == num % den
      n == LeadingZeros(r, den) + DoubleBits + 2
      sticky == IF (r * PowMod2(n, den)) % den > 0 THEN 1 ELSE 0
      int == BitsOf(num \div den)
  IN  RoundToDouble(
        [sig |-> [j \in 1..(n + 1 + Len(int)) |->
                    IF j = 1 THEN sticky
                    ELSE IF j <= n + 1 THEN FractionBit(r, den, n + 2 - j)
                    ELSE int[j - n - 1]],
         exp |-> 0 - (n + 1)])
\* x * k for an integer 0 <= k < 2^16, exactly, then rounded
Limbs(bits) == (Len(bits) + LimbBits - 1) \div LimbBits
Limb(bits, i) ==
  ValueOf(SubSeq(bits, LimbBits * (i - 1) + 1,
                 IF LimbBits * i < Len(bits) THEN LimbBits * i ELSE Len(bits)))
RECURSIVE CarryInto(_, _, _)
CarryInto(bits, k, i) ==
  IF i = 1 THEN 0
  ELSE (Limb(bits, i - 1) * k + CarryInto(bits, k, i - 1)) \div Pow2(LimbBits)
TimesLimb(bits, k, i) ==
  IF i > Limbs(bits) THEN CarryInto(bits, k, i)
  ELSE (Limb(bits, i) * k + CarryInto(bits, k, i)) % Pow2(LimbBits)
TimesBits(bits, k) ==
  [j \in 1..(LimbBits * (Limbs(bits) + 1)) |->
     BitAt(TimesLimb(bits, k, (j - 1) \div LimbBits + 1), (j - 1) % LimbBits)]
DoubleTimes(x, k) ==
  RoundToDouble([sig |-> TimesBits(x.sig, k), exp |-> x.exp])
\* conversion of a double to uint32_t: the fraction is discarded
ToUint32(x) ==
  IF x.exp >= 0 THEN ValueOf(x.sig) * Pow2(x.exp)
  ELSE ValueOf(SubSeq(x.sig, 1 - x.exp, Len(x.sig)))

\* (percent / 100.0) * maxDuty, truncated by the conversion to uint32_t
DutyFromPercent(percent) ==
  ToUint32(DoubleTimes(DoubleQuotient(percent, 100),
                       calculateMaxDutyFromPrecision(precision)))
\* the percentages the duty is computed for
Percents == 0..100
Duties == [percent \in Percents |-> DutyFromPercent(percent)]

\* calculateDutyFromPercent in integer arithmetic: percent / 100 * maxDuty
CalculateDutyIntegerQuotient(percent) ==
  (percent \div 100) * calculateMaxDutyFromPrecision(precision)

calculateDutyFromPercent(percent) == Duties[percent]

\* setPwmPercent that skips the write when the duty is the one written last
SetPwmPercentOnChange(m, percent) ==
  IF calculateDutyFromPercent(percent) = m.fanDuty THEN m
  ELSE [m EXCEPT !.fanDuty = calculateDutyFromPercent(percent),
                 !.pwm = [called |-> TRUE,
                          duty |-> calculateDutyFromPercent(percent)]]

\* ledcWrite(pwmChannel, duty); the fan's is the only channel
setPwmPercent(m, percent) ==
  [m EXCEPT !.fanDuty = calculateDutyFromPercent(percent),
            !.pwm = [called |-> TRUE,
                     duty |-> calculateDutyFromPercent(percent)]]
setFanSpeedPercent(m, percent) == setPwmPercent(m, percent)
fanOn(m) == setPwmPercent(m, 100)
fanOff(m) == setPwmPercent(m, 0)

\* ------------------------------------------------------------ scheduler
TaskIds(ts) == {ts[i].id : i \in 1..Len(ts)}
\* a handle never names two tasks: a fresh id differs from every live task
\* and from every handle still stored
FreshId(m) ==
  CHOOSE n \in 1..(Len(m.tasks) + 3) :
    /\ n \notin TaskIds(m.tasks) \cup {m.rep, m.tmo}
    /\ \A k \in 1..(n - 1) : k \in TaskIds(m.tasks) \cup {m.rep, m.tmo}

AddTask(m, delay, h, opaque, repeat) ==
  [m EXCEPT !.tasks = Append(@, [id |-> FreshId(m), handler |-> h,
                                 remaining |-> delay, expires |-> delay,
                                 repeat |-> repeat, opaque |-> opaque])]
\* timer.in(delay, h, opaque)
timerIn(m, delay, h, opaque) == AddTask(m, delay, h, opaque, FALSE)
\* timer.every(interval, h, opaque)
timerEvery(m, interval, h, opaque) == AddTask(m, interval, h, opaque, TRUE)
\* timer.cancel(task): the task the handle names, if it is still there
cancelTask(ts, h) == SelectSeq(ts, LAMBDA t : t.id # h)
\* timer.cancel(): every task
cancelAll(ts) == << >>

\* ------------------------------------------------------ mist cycles
\* mistForDuration that schedules no off-timer
MistForDurationNoOffTimer(m, duration) == mistOn(m)

mistForDuration(m, duration) ==
  timerIn(mistOn(m), duration, "mistOffFromTimer", 0)

\* mistOffFromTimer that toggles the relay
MistOffFromTimerToggles(m) == writeMistState(m, ~getMistState(m))
mistOffFromTimer(m) == mistOff(m)
mistOnFromTimer(m) == mistOn(m)

\* mistForDurationFromTimer without the long-press test
MistForDurationFromTimerUnguarded(m, opaque) == mistForDuration(m, opaque)

mistForDurationFromTimer(m, opaque) ==
  IF isLongPressed["One"] THEN m ELSE mistForDuration(m, opaque)

\* mistForDurationRepeating with the off duration alone as the interval
MistForDurationRepeatingOffInterval(m, onDuration, offDuration) ==
  LET m1 == mistForDuration(m, onDuration)
      id == FreshId(m1)
  IN  [timerEvery(m1, offDuration, "mistForDurationFromTimer", onDuration)
         EXCEPT !.rep = id]

mistForDurationRepeating(m, onDuration, offDuration) ==
  LET m1 == mistForDuration(m, onDuration)
      id == FreshId(m1)
  IN  [timerEvery(m1, offDuration + onDuration, "mistForDurationFromTimer",
                  onDuration)
         EXCEPT !.rep = id]

\* cancelMistForDurationRepeatingTask calling timer.cancel() without the handle
CancelRepeatingCancelsEverything(m) ==
  [m EXCEPT !.tasks = cancelAll(@), !.rep = 0]

cancelMistForDurationRepeatingTask(m) ==
  [m EXCEPT !.tasks = cancelTask(@, m.rep), !.rep = 0]

\* cancelAllTimerTasks that cancels nothing
CancelNoTimerTasks(m) == m

cancelAllTimerTasks(m) == [m EXCEPT !.tasks = cancelAll(@)]

cancelAllTimerTasksAndTurnOffMistAndFan(m) ==
  fanOff(mistOff(cancelAllTimerTasks(m)))

implementTimeout(m) == cancelAllTimerTasksAndTurnOffMistAndFan(m)
implementTimeoutFromTimer(m) == implementTimeout(m)

createTimeoutTimer(m) ==
  [timerIn(m, timeout, "implementTimeoutFromTimer", 0)
     EXCEPT !.tmo = FreshId(m)]

\* resetTimeoutTimer without the cancel
ResetTimeoutTimerNoCancel(m) == createTimeoutTimer(m)

\* resetTimeoutTimer cancelling the repeating-cycle handle instead
ResetTimeoutTimerWrongHandle(m) ==
  createTimeoutTimer([m EXCEPT !.tasks = cancelTask(@, m.rep), !.rep = 0])

resetTimeoutTimer(m) ==
  createTimeoutTimer([m EXCEPT !.tasks = cancelTask(@, m.tmo), !.tmo = 0])

\* ------------------------------------------------- gesture callbacks
clickOne(m) == mistForDuration(resetTimeoutTimer(m), 1000)

doubleclickOne(m) == mistForDurationRepeating(resetTimeoutTimer(m), 1000, 30000)

longPressStartOne(m) == resetTimeoutTimer(m)

longPressOne(m) == mistOn(resetTimeoutTimer(m))

longPressStopOne(m) == mistOff(resetTimeoutTimer(m))

\* multiClickOne with each branch one click count too high
MultiClickOneCountShifted(m, n) ==
  LET m1 == resetTimeoutTimer(m)
  IN  IF n = 4 THEN mistForDurationRepeating(m1, 1000, 15000)
      ELSE IF n = 5 THEN mistForDurationRepeating(m1, 3000, 30000)
      ELSE IF n = 6 THEN mistForDurationRepeating(m1, 3000, 15000)
      ELSE m1

multiClickOne(m, n) ==
  LET m1 == resetTimeoutTimer(m)
  IN  IF n = 3 THEN mistForDurationRepeating(m1, 1000, 15000)
      ELSE IF n = 4 THEN mistForDurationRepeating(m1, 3000, 30000)
      ELSE IF n = 5 THEN mistForDurationRepeating(m1, 3000, 15000)
      ELSE m1

clickTwo(m) == fanOn(resetTimeoutTimer(m))
\* doubleclickTwo with the body of doubleclickThree
DoubleclickTwoStopsAll(m) ==
  cancelAllTimerTasksAndTurnOffMistAndFan(resetTimeoutTimer(m))
doubleclickTwo(m) == fanOff(resetTimeoutTimer(m))
longPressStartTwo(m) == resetTimeoutTimer(m)
longPressTwo(m) == resetTimeoutTimer(m)
\* longPressStopTwo with the body of longPressStopOne
LongPressStopTwoAsOne(m) == longPressStopOne(m)
longPressStopTwo(m) == resetTimeoutTimer(m)
multiClickTwo(m, n) == resetTimeoutTimer(m)

clickThree(m) == cancelMistForDurationRepeatingTask(resetTimeoutTimer(m))
doubleclickThree(m) ==
  cancelAllTimerTasksAndTurnOffMistAndFan(resetTimeoutTimer(m))
longPressStartThree(m) == resetTimeoutTimer(m)
longPressThree(m) == resetTimeoutTimer(m)
longPressStopThree(m) == resetTimeoutTimer(m)
multiClickThree(m, n) == resetTimeoutTimer(m)

\* buttonSetup(): the callbacks are attached (the actions below) and the
\* button poll is registered as a repeating task of interval 0
buttonSetup(m) == timerEvery(m, 0, "buttonTickFromTimer", 0)

\* the globals as initialised; the mist pin is low until its first write
Boot == [mistState |-> FALSE, mistPin |-> FALSE, fanDuty |-> 0,
         tasks |-> << >>, rep |-> 0, tmo |-> 0, call |-> NoCall,
         pwm |-> NoPwm]

setup(m) == fanOn(buttonSetup(createTimeoutTimer(m)))

\* ------------------------------------------------------------ time
IsPoll(t) == t.handler = "buttonTickFromTimer"
PollLive == \E i \in 1..Len(tasks) : IsPoll(tasks[i])
Pending == {i \in 1..Len(tasks) : ~IsPoll(tasks[i])}
Due == {i \in Pending : tasks[i].remaining = 0}
NoDue == Due = {}
MinRemaining ==
  CHOOSE r \in {tasks[i].remaining : i \in Pending} :
    \A i \in Pending : r <= tasks[i].remaining
FirstDue == CHOOSE i \in Due : \A j \in Due : i <= j
AnyPressed == \E b \in Buttons : isLongPressed[b]
CountOf(ts, h) == Cardinality({i \in 1..Len(ts) : ts[i].handler = h})
TimeoutRemaining ==
  {tasks[i].remaining : i \in {j \in 1..Len(tasks) : tasks[j].id = timeoutTimerTask}}

\* While a button is long-pressed the poll runs its during-long-press callback
\* on every pass of loop(): time moves on only from a state that callback has
\* left, and never as far as the timeout it keeps re-arming.
Serviced ==
  (PollLive /\ AnyPressed) =>
    /\ TimeoutRemaining = {timeout}
    /\ isLongPressed["One"] => mistState

\* d ms can pass: loop() ticks continuously, so no due task is left waiting
CanPass(d) ==
  /\ d > 0
  /\ Pending # {}
  /\ NoDue
  /\ d <= MinRemaining
  /\ Serviced
  /\ (PollLive /\ AnyPressed) => d < timeout

Elapse(ts, d) ==
  [i \in 1..Len(ts) |->
     IF IsPoll(ts[i]) THEN ts[i] ELSE [ts[i] EXCEPT !.remaining = @ - d]]

\* Timer::tick() after the handler has returned true: a repeating task is
\* due again one interval later, a one-shot task is removed
AfterHandler(ts, t) ==
  IF t.repeat
  THEN [i \in 1..Len(ts) |->
          IF ts[i].id = t.id THEN [ts[i] EXCEPT !.remaining = t.expires]
          ELSE ts[i]]
  ELSE cancelTask(ts, t.id)

Summary(m) ==
  [repeating |-> CountOf(m.tasks, "mistForDurationFromTimer"),
   offTimers |-> CountOf(m.tasks, "mistOffFromTimer"),
   timeouts |-> CountOf(m.tasks, "implementTimeoutFromTimer"),
   mistState |-> m.mistState, fanDuty |-> m.fanDuty,
   timeoutFired |-> timeoutFired]

Commit(m, ev, before) ==
  /\ mistState' = m.mistState
  /\ mistPin' = m.mistPin
  /\ fanDuty' = m.fanDuty
  /\ tasks' = m.tasks
  /\ mistForDurationRepeatingTask' = m.rep
  /\ timeoutTimerTask' = m.tmo
  /\ lastCall' = m.call
  /\ lastPwm' = m.pwm
  /\ event' = ev
  /\ pre' = Summary(before)

Ev(name, arg) == [name |-> name, arg |-> arg]

\* ------------------------------------------------------------ Init
Start(md) ==
  LET m == setup(Boot)
  IN  /\ mistState = m.mistState
      /\ mistPin = m.mistPin
      /\ fanDuty = m.fanDuty
      /\ tasks = m.tasks
      /\ mistForDurationRepeatingTask = m.rep
      /\ timeoutTimerTask = m.tmo
      /\ isLongPressed = [b \in Buttons |-> FALSE]
      /\ event = Ev("setup", 0)
      /\ lastCall = NoCall
      /\ lastPwm = m.pwm
      /\ sinceGesture = 0
      /\ timeoutFired = 0
      /\ pre = Summary(Boot)
      /\ holdingOne = FALSE
      /\ cancelled = FALSE
      /\ ngest = 0
      /\ nfired = 0
      /\ lastGesture = Ev("setup", 0)
      /\ mode = md

Init == Start("bounded")
InitIdle == Start("idle")
InitDeep == Start("deep")

\* ------------------------------------------------------- gestures
\* An event records the click count only where the callback branches on it
\* (multiClickOne); buttons Two and Three only log it.
\* buttonTickFromTimer: the poll task runs OneButton::tick() for each button,
\* which calls back when it recognises a gesture.  A gesture is recognised d ms
\* after the previous event; a button in a long press reports no clicks.
Budget ==
  IF mode = "idle" THEN 1
  ELSE IF mode = "deep" THEN MaxGestures + 1
  ELSE MaxGestures

Begins(b, d) ==
  /\ PollLive
  /\ ~isLongPressed[b]
  /\ ngest < Budget
  /\ d = 0 \/ CanPass(d)

Held(b) == PollLive /\ isLongPressed[b]

\* the program state at the instant the callback runs
At(d) == [Machine EXCEPT !.tasks = Elapse(@, d)]

Callback(m0, m1, ev, begun) ==
  /\ Commit(m1, ev, m0)
  /\ sinceGesture' = 0
  /\ timeoutFired' = 0
  /\ ngest' = ngest + begun
  /\ lastGesture' = ev
  /\ UNCHANGED <<nfired, mode>>

DoClickOne(d) ==
  /\ Begins("One", d)
  /\ Callback(At(d), clickOne(At(d)), Ev("clickOne", 0), 1)
  /\ UNCHANGED <<isLongPressed, holdingOne, cancelled>>

DoDoubleclickOne(d) ==
  /\ Begins("One", d)
  /\ Callback(At(d), doubleclickOne(At(d)), Ev("doubleclickOne", 0), 1)
  /\ cancelled' = FALSE
  /\ UNCHANGED <<isLongPressed, holdingOne>>

DoMultiClickOne(d, n) ==
  /\ Begins("One", d)
  /\ Callback(At(d), multiClickOne(At(d), n), Ev("multiClickOne", n), 1)
  /\ cancelled' = IF n \in {3, 4, 5} THEN FALSE ELSE cancelled
  /\ UNCHANGED <<isLongPressed, holdingOne>>

DoLongPressStartOne(d) ==
  /\ Begins("One", d)
  /\ Callback(At(d), longPressStartOne(At(d)), Ev("longPressStartOne", 0), 1)
  /\ isLongPressed' = [isLongPressed EXCEPT !["One"] = TRUE]
  /\ UNCHANGED <<holdingOne, cancelled>>

DoLongPressOne ==
  /\ Held("One")
  /\ Callback(Machine, longPressOne(Machine), Ev("longPressOne", 0), 0)
  /\ holdingOne' = TRUE
  /\ UNCHANGED <<isLongPressed, cancelled>>

DoLongPressStopOne ==
  /\ Held("One")
  /\ Callback(Machine, longPressStopOne(Machine), Ev("longPressStopOne", 0), 0)
  /\ isLongPressed' = [isLongPressed EXCEPT !["One"] = FALSE]
  /\ holdingOne' = FALSE
  /\ UNCHANGED cancelled

DoClickTwo(d) ==
  /\ Begins("Two", d)
  /\ Callback(At(d), clickTwo(At(d)), Ev("clickTwo", 0), 1)
  /\ UNCHANGED <<isLongPressed, holdingOne, cancelled>>

DoDoubleclickTwo(d) ==
  /\ Begins("Two", d)
  /\ Callback(At(d), doubleclickTwo(At(d)), Ev("doubleclickTwo", 0), 1)
  /\ UNCHANGED <<isLongPressed, holdingOne, cancelled>>

DoMultiClickTwo(d, n) ==
  /\ Begins("Two", d)
  /\ Callback(At(d), multiClickTwo(At(d), n), Ev("multiClickTwo", 0), 1)
  /\ UNCHANGED <<isLongPressed, holdingOne, cancelled>>

DoLongPressStartTwo(d) ==
  /\ Begins("Two", d)
  /\ Callback(At(d), longPressStartTwo(At(d)), Ev("longPressStartTwo", 0), 1)
  /\ isLongPressed' = [isLongPressed EXCEPT !["Two"] = TRUE]
  /\ UNCHANGED <<holdingOne, cancelled>>

DoLongPressTwo ==
  /\ Held("Two")
  /\ Callback(Machine, longPressTwo(Machine), Ev("longPressTwo", 0), 0)
  /\ UNCHANGED <<isLongPressed, holdingOne, cancelled>>

DoLongPressStopTwo ==
  /\ Held("Two")
  /\ Callback(Machine, longPressStopTwo(Machine), Ev("longPressStopTwo", 0), 0)
  /\ isLongPressed' = [isLongPressed EXCEPT !["Two"] = FALSE]
  /\ UNCHANGED <<holdingOne, cancelled>>

DoClickThree(d) ==
  /\ Begins("Three", d)
  /\ Callback(At(d), clickThree(At(d)), Ev("clickThree", 0), 1)
  /\ cancelled' = TRUE
  /\ UNCHANGED <<isLongPressed, holdingOne>>

DoDoubleclickThree(d) ==
  /\ Begins("Three", d)
  /\ Callback(At(d), doubleclickThree(At(d)), Ev("doubleclickThree", 0), 1)
  /\ UNCHANGED <<isLongPressed, holdingOne, cancelled>>

DoMultiClickThree(d, n) ==
  /\ Begins("Three", d)
  /\ Callback(At(d), multiClickThree(At(d), n), Ev("multiClickThree", 0), 1)
  /\ UNCHANGED <<isLongPressed, holdingOne, cancelled>>

DoLongPressStartThree(d) ==
  /\ Begins("Three", d)
  /\ Callback(At(d), longPressStartThree(At(d)), Ev("longPressStartThree", 0), 1)
  /\ isLongPressed' = [isLongPressed EXCEPT !["Three"] = TRUE]
  /\ UNCHANGED <<holdingOne, cancelled>>

DoLongPressThree ==
  /\ Held("Three")
  /\ Callback(Machine, longPressThree(Machine), Ev("longPressThree", 0), 0)
  /\ UNCHANGED <<isLongPressed, holdingOne, cancelled>>

DoLongPressStopThree ==
  /\ Held("Three")
  /\ Callback(Machine, longPressStopThree(Machine), Ev("longPressStopThree", 0), 0)
  /\ isLongPressed' = [isLongPressed EXCEPT !["Three"] = FALSE]
  /\ UNCHANGED <<holdingOne, cancelled>>

\* ------------------------------------------------------ timer.tick()
\* loop() calls timer.tick(): the due task registered first runs its handler
Fires(h) ==
  /\ Due # {}
  /\ tasks[FirstDue].handler = h
  /\ mode = "idle" \/ nfired < MaxFirings

Fired(m1, t, ev) ==
  /\ Commit([m1 EXCEPT !.tasks = AfterHandler(@, t)], ev, Machine)
  /\ nfired' = IF mode = "idle" THEN nfired ELSE nfired + 1
  /\ UNCHANGED <<isLongPressed, sinceGesture, holdingOne, cancelled, ngest,
                 lastGesture, mode>>

TickMistOff ==
  /\ Fires("mistOffFromTimer")
  /\ Fired(mistOffFromTimer(Machine), tasks[FirstDue],
           Ev("mistOffFromTimer", tasks[FirstDue].id))
  /\ UNCHANGED timeoutFired

TickMistForDuration ==
  /\ Fires("mistForDurationFromTimer")
  /\ Fired(mistForDurationFromTimer(Machine, tasks[FirstDue].opaque),
           tasks[FirstDue], Ev("mistForDurationFromTimer", tasks[FirstDue].id))
  /\ UNCHANGED timeoutFired

TickTimeout ==
  /\ Fires("implementTimeoutFromTimer")
  /\ Fired(implementTimeoutFromTimer(Machine), tasks[FirstDue],
           Ev("implementTimeoutFromTimer", tasks[FirstDue].id))
  /\ timeoutFired' = IF timeoutFired < 2 THEN timeoutFired + 1 ELSE 2

\* time passes until the next task is due
Advance ==
  /\ Pending # {}
  /\ CanPass(MinRemaining)
  /\ tasks' = Elapse(tasks, MinRemaining)
  /\ sinceGesture' = sinceGesture + MinRemaining
  /\ event' = Ev("wait", 0)
  /\ lastCall' = NoCall
  /\ lastPwm' = NoPwm
  /\ pre' = Summary(Machine)
  /\ UNCHANGED <<mistState, mistPin, fanDuty, mistForDurationRepeatingTask,
                 timeoutTimerTask, isLongPressed, timeoutFired, holdingOne,
                 cancelled, ngest, nfired,
                 lastGesture, mode>>

\* nothing is scheduled: time passes to the end of the timeout window
IdleWait ==
  /\ Pending = {}
  /\ sinceGesture < timeout
  /\ sinceGesture' = timeout
  /\ event' = Ev("wait", 0)
  /\ lastCall' = NoCall
  /\ lastPwm' = NoPwm
  /\ pre' = Summary(Machine)
  /\ UNCHANGED <<mistState, mistPin, fanDuty, tasks,
                 mistForDurationRepeatingTask, timeoutTimerTask, isLongPressed,
                 timeoutFired, holdingOne, cancelled, ngest, nfired,
                 lastGesture, mode>>

Next ==
  \/ \E d \in GestureDelays : DoClickOne(d)
  \/ \E d \in GestureDelays : DoDoubleclickOne(d)
  \/ \E d \in GestureDelays : \E n \in ClickCounts : DoMultiClickOne(d, n)
  \/ \E d \in GestureDelays : DoLongPressStartOne(d)
  \/ DoLongPressOne
  \/ DoLongPressStopOne
  \/ \E d \in GestureDelays : DoClickTwo(d)
  \/ \E d \in GestureDelays : DoDoubleclickTwo(d)
  \/ \E d \in GestureDelays : \E n \in ClickCounts : DoMultiClickTwo(d, n)
  \/ \E d \in GestureDelays : DoLongPressStartTwo(d)
  \/ DoLongPressTwo
  \/ DoLongPressStopTwo
  \/ \E d \in GestureDelays : DoClickThree(d)
  \/ \E d \in GestureDelays : DoDoubleclickThree(d)
  \/ \E d \in GestureDelays : \E n \in ClickCounts : DoMultiClickThree(d, n)
  \/ \E d \in GestureDelays : DoLongPressStartThree(d)
  \/ DoLongPressThree
  \/ DoLongPressStopThree
  \/ TickMistOff
  \/ TickMistForDuration
  \/ TickTimeout
  \/ Advance
  \/ IdleWait

Spec == Init /\ [][Next]_vars

\* one gesture, then the device is left alone until the timeout: the timer
\* callbacks are not bounded
SpecIdle == InitIdle /\ [][Next]_vars

\* one gesture more than Spec
SpecDeep == InitDeep /\ [][Next]_vars

\* loop() never stops calling timer.tick(): time keeps passing and a due
\* task is run
Ticking ==
  /\ WF_vars(Advance)
  /\ WF_vars(TickMistOff)
  /\ WF_vars(TickMistForDuration)
  /\ WF_vars(TickTimeout)

SpecIdleFair == SpecIdle /\ Ticking

\* setFanSpeedPercent is called by no handler: it is exercised on its own,
\* with every percentage, from the state setup leaves and from every state
\* it leaves itself
InitDuty == Start("duty")

DoSetFanSpeedPercent(percent) ==
  /\ mode = "duty"
  /\ Commit(setFanSpeedPercent(Machine, percent),
            Ev("setFanSpeedPercent", percent), Machine)
  /\ UNCHANGED <<isLongPressed, sinceGesture, timeoutFired, holdingOne,
                 cancelled, ngest, nfired, lastGesture, mode>>

NextDuty == \E percent \in Percents : DoSetFanSpeedPercent(percent)

SpecDuty == InitDuty /\ [][NextDuty]_vars

\* =============================================================== claims
GestureNames ==
  {"clickOne", "doubleclickOne", "multiClickOne", "longPressStartOne",
   "longPressOne", "longPressStopOne",
   "clickTwo", "doubleclickTwo", "multiClickTwo", "longPressStartTwo",
   "longPressTwo", "longPressStopTwo",
   "clickThree", "doubleclickThree", "multiClickThree", "longPressStartThree",
   "longPressThree", "longPressStopThree"}
TimerNames ==
  {"mistOffFromTimer", "mistForDurationFromTimer", "implementTimeoutFromTimer"}

\* a gesture that requests a repeating cycle, and the cycle it requests
StartsCycle(ev) ==
  \/ ev.name = "doubleclickOne"
  \/ ev.name = "multiClickOne" /\ ev.arg \in {3, 4, 5}
CycleOn(ev) ==
  IF ev.name = "doubleclickOne" \/ ev.arg = 3 THEN 1000 ELSE 3000
CycleOff(ev) ==
  IF ev.name = "doubleclickOne" \/ ev.arg = 4 THEN 30000 ELSE 15000
RepeatingTasks ==
  {i \in 1..Len(tasks) : tasks[i].handler = "mistForDurationFromTimer"}
MistOnWritten == lastCall.called /\ lastCall.wrote /\ lastCall.req

\* C1: when a gesture that requests a repeating cycle has returned, the timer
\* holds exactly one repeating mist task: the one the handle names, with the
\* period on+off of that request.  (Violated by the second of two requests:
\* mistForDurationRepeating overwrites the handle without cancelling.)
C1_OneCycleAfterStart ==
  StartsCycle(event) =>
    /\ Cardinality(RepeatingTasks) = 1
    /\ \A i \in RepeatingTasks :
         /\ tasks[i].id = mistForDurationRepeatingTask
         /\ tasks[i].expires = CycleOn(event) + CycleOff(event)

\* C2: once clickThree has returned and until a new cycle is requested, no
\* firing of a repeating mist task turns the mist on.
C2_NoCycleFiringAfterCancel ==
  cancelled => ~(event.name = "mistForDurationFromTimer" /\ MistOnWritten)

\* C3: when any of the 18 gesture callbacks has returned, a one-shot timeout
\* task is pending and due a full timeout window later.
C3_GestureRearmsTimeout ==
  event.name \in GestureNames =>
    /\ CountOf(tasks, "implementTimeoutFromTimer") = 1
    /\ \E i \in 1..Len(tasks) :
         /\ tasks[i].handler = "implementTimeoutFromTimer"
         /\ tasks[i].id = timeoutTimerTask
         /\ tasks[i].remaining = timeout
         /\ ~tasks[i].repeat

\* C4: when a full timeout window has passed since the last gesture (or since
\* setup) and no timeout is left to fire, the timeout callback has fired
\* exactly once, no task is outstanding, the mist is off and the fan duty 0.
C4_TimeoutFiresOnceWhenIdle ==
  (sinceGesture >= timeout /\ CountOf(tasks, "implementTimeoutFromTimer") = 0) =>
    /\ timeoutFired = 1
    /\ tasks = << >>
    /\ ~mistState
    /\ ~mistPin
    /\ fanDuty = 0

\* C5: the timeout callback fires only when a full window has passed since
\* the last gesture, so none has fired between two gestures that are less
\* than a window apart.
C5_NoTimeoutWithinWindow ==
  /\ event.name = "implementTimeoutFromTimer" => sinceGesture >= timeout
  /\ (event.name \in GestureNames /\ ngest >= 2) => pre.timeoutFired = 0
C5_Witness ==
  /\ event.name \in GestureNames
  /\ ngest >= 2
  /\ nfired >= 1
  /\ pre.timeoutFired = 0

\* C6: after doubleclickThree, and as long as no other gesture follows, the
\* mist relay is off, the fan duty is 0, no repeating mist task is left and no
\* timer firing is a cycle firing or turns the mist on.
C6_StopAll ==
  lastGesture.name = "doubleclickThree" =>
    /\ ~mistState
    /\ ~mistPin
    /\ fanDuty = 0
    /\ RepeatingTasks = {}
    /\ event.name # "mistForDurationFromTimer"
    /\ ~MistOnWritten
C6_Witness ==
  /\ event.name = "doubleclickThree"
  /\ pre.repeating >= 1
  /\ pre.offTimers >= 1
  /\ pre.mistState

\* C7: after a single request for a repeating cycle (the only gesture, no long
\* press), and until the timeout cancels it, the relay is on exactly during
\* [k*(on+off), k*(on+off)+on) after the request, for every k >= 0: it is
\* written on at k*(on+off) and off at k*(on+off)+on.
C7_CycleTiming ==
  (ngest = 1 /\ StartsCycle(lastGesture) /\ timeoutFired = 0) =>
    LET on == CycleOn(lastGesture)
        period == CycleOn(lastGesture) + CycleOff(lastGesture)
    IN  /\ NoDue => /\ mistState = ((sinceGesture % period) < on)
                    /\ mistPin = mistState
        /\ (lastCall.called /\ lastCall.wrote) =>
             sinceGesture % period = (IF lastCall.req THEN 0 ELSE on)
C7_Witness ==
  /\ ngest = 1
  /\ StartsCycle(lastGesture)
  /\ sinceGesture >= 2 * (CycleOn(lastGesture) + CycleOff(lastGesture))
  /\ event.name = "mistForDurationFromTimer"
  /\ MistOnWritten

\* C8: writeMistState writes the pin if and only if the requested state
\* differs from the cached one, the cached state is always the level last
\* written to the pin, and a write never repeats the level the pin had.
C8_WriteOnChange ==
  /\ mistState = mistPin
  /\ lastCall.called =>
       /\ lastCall.wrote <=> (lastCall.req # lastCall.cached)
       /\ mistState = lastCall.req
       /\ lastCall.wrote => lastCall.prevPin # mistPin
C8_Witness ==
  /\ lastCall.called
  /\ ~lastCall.wrote
  /\ lastCall.req
  /\ event.name \in {"clickOne", "doubleclickOne", "multiClickOne"}

\* C9: between longPressOne and longPressStopOne no timer firing leaves the
\* mist relay off.
C9_HoldKeepsMistOn ==
  (holdingOne /\ event.name \in TimerNames) => mistState

\* C10: a repeating mist task that comes due while button One is long-pressed
\* changes neither the relay nor the tasks, and is due again one period
\* later; otherwise the firing turns the mist on and adds one off-timer due
\* after the task's on duration.
TaskWithId(ts, id) == ts[CHOOSE i \in 1..Len(ts) : ts[i].id = id]
Rearmed(ts, id) ==
  [i \in 1..Len(ts) |->
     IF ts[i].id = id THEN [ts[i] EXCEPT !.remaining = ts[i].expires]
     ELSE ts[i]]
C10_CycleFiring ==
  [][event'.name = "mistForDurationFromTimer" =>
       LET id == event'.arg
           t == TaskWithId(tasks, id)
           n == Len(tasks)
       IN  /\ t.handler = "mistForDurationFromTimer"
           /\ t.remaining = 0
           /\ IF isLongPressed["One"]
              THEN /\ mistState' = mistState
                   /\ mistPin' = mistPin
                   /\ ~lastCall'.called
                   /\ tasks' = Rearmed(tasks, id)
              ELSE /\ mistState'
                   /\ mistPin'
                   /\ lastCall'.called /\ lastCall'.req
                   /\ Len(tasks') = n + 1
                   /\ SubSeq(tasks', 1, n) = Rearmed(tasks, id)
                   /\ tasks'[n + 1].handler = "mistOffFromTimer"
                   /\ tasks'[n + 1].remaining = t.opaque
                   /\ ~tasks'[n + 1].repeat]_vars
C10_Witness ==
  /\ event.name = "mistForDurationFromTimer"
  /\ isLongPressed["One"]
  /\ ~lastCall.called
  /\ mistState

\* C11: button One dispatch.  clickOne is one pulse of 1000 ms; doubleclickOne
\* and multiClickOne with 3, 4, 5 clicks start the cycles (1000, 30000),
\* (1000, 15000), (3000, 30000), (3000, 15000): the mist is on, one off-timer
\* is added due after the on duration and one repeating task of period on+off
\* named by the handle; multiClickOne with another count and
\* longPressStartOne leave relay, pin, fan, handle and mist tasks as they
\* were.  After multiClickOne with 3 clicks as the only gesture the pin is
\* written on at 0, off at 1000, on at 16000 and off at 17000 and at no other
\* time up to 17000.
IsMistTask(t) ==
  t.handler \in {"mistOffFromTimer", "mistForDurationFromTimer"}
MistTasksOf(ts) == SelectSeq(ts, IsMistTask)
Shape(t) ==
  [handler |-> t.handler, remaining |-> t.remaining, expires |-> t.expires,
   repeat |-> t.repeat, opaque |-> t.opaque]
Shapes(ts) == [i \in 1..Len(ts) |-> Shape(ts[i])]
OffShape(d) ==
  [handler |-> "mistOffFromTimer", remaining |-> d, expires |-> d,
   repeat |-> FALSE, opaque |-> 0]
CycleShape(on, off) ==
  [handler |-> "mistForDurationFromTimer", remaining |-> on + off,
   expires |-> on + off, repeat |-> TRUE, opaque |-> on]
\* the mist tasks after the step are those before it, d ms later, and added
MistTasksBecome(d, added) ==
  Shapes(MistTasksOf(tasks')) = Shapes(MistTasksOf(Elapse(tasks, d))) \o added
PulseDone(d, duration) ==
  /\ mistState' /\ mistPin'
  /\ MistTasksBecome(d, <<OffShape(duration)>>)
  /\ mistForDurationRepeatingTask' = mistForDurationRepeatingTask
CycleStarted(d, on, off) ==
  /\ mistState' /\ mistPin'
  /\ MistTasksBecome(d, <<OffShape(on), CycleShape(on, off)>>)
  /\ tasks'[Len(tasks')].id = mistForDurationRepeatingTask'
  /\ tasks'[Len(tasks')].handler = "mistForDurationFromTimer"
NoMistAction(d) ==
  /\ mistState' = mistState /\ mistPin' = mistPin
  /\ ~lastCall'.called
  /\ MistTasksBecome(d, << >>)
  /\ mistForDurationRepeatingTask' = mistForDurationRepeatingTask
C11_ButtonOneDispatch ==
  /\ [][\E d \in GestureDelays :
          /\ event'.name = "clickOne" => PulseDone(d, 1000)
          /\ event'.name = "doubleclickOne" => CycleStarted(d, 1000, 30000)
          /\ event' = Ev("multiClickOne", 3) => CycleStarted(d, 1000, 15000)
          /\ event' = Ev("multiClickOne", 4) => CycleStarted(d, 3000, 30000)
          /\ event' = Ev("multiClickOne", 5) => CycleStarted(d, 3000, 15000)
          /\ (event'.name = "multiClickOne" /\ event'.arg \notin {3, 4, 5})
               => NoMistAction(d)
          /\ event'.name = "longPressStartOne" => NoMistAction(d)
          /\ event'.name \in {"clickOne", "doubleclickOne", "multiClickOne",
                               "longPressStartOne"} => fanDuty' = fanDuty]_vars
  /\ []((ngest = 1 /\ lastGesture = Ev("multiClickOne", 3)
          /\ sinceGesture <= 17000) =>
         /\ (lastCall.called /\ lastCall.wrote) =>
              <<sinceGesture, lastCall.req>> \in
                {<<0, TRUE>>, <<1000, FALSE>>, <<16000, TRUE>>, <<17000, FALSE>>}
         /\ NoDue => mistState = (sinceGesture < 1000 \/
                                    (16000 <= sinceGesture /\ sinceGesture < 17000)))
C11_Witness ==
  /\ ngest = 1
  /\ lastGesture = Ev("multiClickOne", 3)
  /\ sinceGesture = 17000
  /\ event.name = "mistOffFromTimer"
  /\ lastCall.wrote

\* C12: clickThree removes the repeating task the handle names, if it is
\* live, and clears the handle; it leaves the relay, the pin, the fan duty,
\* the pending off-timers, the other repeating tasks and the button poll as
\* they were and re-arms the timeout; so when the handle names no live task
\* nothing but the timeout changes.  Run twice in a row it leaves the state
\* it leaves when run once.
IsOffTimer(t) == t.handler = "mistOffFromTimer"
IsCycleTask(t) == t.handler = "mistForDurationFromTimer"
IsCycleNotNamed(t) == IsCycleTask(t) /\ t.id # mistForDurationRepeatingTask
IsTimeoutTask(t) == t.handler = "implementTimeoutFromTimer"
\* the state a handler leaves, task ids aside
View(m) ==
  [mistState |-> m.mistState, mistPin |-> m.mistPin, fanDuty |-> m.fanDuty,
   tasks |-> Shapes(m.tasks), repeating |-> m.rep,
   timeoutAt |-> {i \in 1..Len(m.tasks) : m.tasks[i].id = m.tmo}]
C12_CancelRepeatingNarrow ==
  /\ [](PollLive =>
          View(clickThree(clickThree(Machine))) = View(clickThree(Machine)))
  /\ [][event'.name = "clickThree" =>
          \E d \in GestureDelays :
            LET then == Elapse(tasks, d)
            IN  /\ mistState' = mistState
                /\ mistPin' = mistPin
                /\ fanDuty' = fanDuty
                /\ ~lastCall'.called
                /\ SelectSeq(tasks', IsOffTimer) = SelectSeq(then, IsOffTimer)
                /\ SelectSeq(tasks', IsPoll) = SelectSeq(tasks, IsPoll)
                /\ SelectSeq(tasks', IsCycleTask)
                     = SelectSeq(then, IsCycleNotNamed)
                /\ mistForDurationRepeatingTask' = 0
                /\ Shapes(SelectSeq(tasks', IsTimeoutTask))
                     = <<[handler |-> "implementTimeoutFromTimer",
                          remaining |-> timeout, expires |-> timeout,
                          repeat |-> FALSE, opaque |-> 0]>>]_vars
C12_Witness ==
  /\ event.name = "clickThree"
  /\ pre.repeating = 0
  /\ pre.offTimers >= 1
  /\ mistState
  /\ CountOf(tasks, "mistOffFromTimer") = pre.offTimers

\* C13: the long-press and multi-click callbacks of buttons Two and Three
\* write neither the relay nor the fan and leave the repeating-cycle handle
\* and every pending mist task as they were; they re-arm the timeout.
QuietNames ==
  {"longPressStartTwo", "longPressTwo", "longPressStopTwo", "multiClickTwo",
   "longPressStartThree", "longPressThree", "longPressStopThree",
   "multiClickThree"}
C13_QuietCallbacks ==
  [][event'.name \in QuietNames =>
       \E d \in GestureDelays :
         /\ mistState' = mistState
         /\ mistPin' = mistPin
         /\ fanDuty' = fanDuty
         /\ ~lastCall'.called
         /\ mistForDurationRepeatingTask' = mistForDurationRepeatingTask
         /\ MistTasksOf(tasks') = MistTasksOf(Elapse(tasks, d))
         /\ SelectSeq(tasks', IsPoll) = SelectSeq(tasks, IsPoll)
         /\ \E i \in 1..Len(tasks') :
              /\ tasks'[i].id = timeoutTimerTask'
              /\ IsTimeoutTask(tasks'[i])
              /\ tasks'[i].remaining = timeout]_vars
C13_Witness ==
  /\ event.name = "longPressStopTwo"
  /\ mistState
  /\ pre.offTimers >= 1
  /\ CountOf(tasks, "mistOffFromTimer") = pre.offTimers

\* C14: with precision 8 calculateDutyFromPercent gives 255 for 100, 0 for 0
\* and 127 for 50, and for every percent in 0..100 the largest integer not
\* above percent * 255 / 100, which lies in 0..255.
C14_DutyFromPercent ==
  event.name = "setFanSpeedPercent" =>
    /\ event.arg \in 0..100
    /\ fanDuty = calculateDutyFromPercent(event.arg)
    /\ fanDuty = (event.arg * 255) \div 100
    /\ fanDuty \in 0..255
    /\ event.arg = 100 => fanDuty = 255
    /\ event.arg = 0 => fanDuty = 0
    /\ event.arg = 50 => fanDuty = 127
C14_Witness ==
  /\ event = Ev("setFanSpeedPercent", 50)
  /\ fanDuty = 127

\* C15: for every percent in 0..100, setFanSpeedPercent writes the fan PWM
\* duty floor(percent * 255 / 100), the product truncated and not rounded to
\* nearest, and writes it on every call, also when it is the duty written
\* last.
C15_SetFanSpeedTruncates ==
  event.name = "setFanSpeedPercent" =>
    /\ lastPwm.called
    /\ lastPwm.duty = (event.arg * 255) \div 100
    /\ fanDuty = lastPwm.duty
C15_Witness ==
  /\ event = Ev("setFanSpeedPercent", 50)
  /\ lastPwm.called
  /\ lastPwm.duty = 127
  /\ pre.fanDuty = 127
\* C15 as stated: the duty written is percent * 255 / 100 rounded to nearest
C15_RoundsToNearest ==
  event.name = "setFanSpeedPercent" =>
    /\ lastPwm.called
    /\ lastPwm.duty = (2 * event.arg * 255 + 100) \div 200

\* C16: overlapping pulses.  No task is left waiting past its due time, so
\* an off-timer fires exactly its duration after its pulse.  A pulse issued
\* while the relay is on writes nothing and leaves the pending off-timers as
\* they were; every off-timer firing leaves the relay off, and writes the pin
\* only if the relay was on, so the earliest one turns it off and the later
\* ones write nothing; and the relay goes from off to on only by a new
\* mist request, never by an off-timer or by time passing.
MistOnRequests ==
  {"clickOne", "doubleclickOne", "multiClickOne", "longPressOne",
   "mistForDurationFromTimer"}
C16_OverlappingPulses ==
  /\ [](\A i \in Pending : tasks[i].remaining >= 0)
  /\ [][/\ event'.name = "mistOffFromTimer" =>
             /\ TaskWithId(tasks, event'.arg).remaining = 0
             /\ IsOffTimer(TaskWithId(tasks, event'.arg))
             /\ ~mistState' /\ ~mistPin'
             /\ lastCall'.called /\ ~lastCall'.req
             /\ lastCall'.wrote <=> mistState
             /\ tasks' = cancelTask(tasks, event'.arg)
        /\ (event'.name = "clickOne" /\ mistState) =>
             /\ ~lastCall'.wrote
             /\ mistState' /\ mistPin'
             /\ \E d \in GestureDelays :
                  SelectSeq(tasks', IsOffTimer)
                    = Append(SelectSeq(Elapse(tasks, d), IsOffTimer),
                             tasks'[Len(tasks')])
        /\ (~mistState /\ mistState') => event'.name \in MistOnRequests]_vars
\* two clicks 500 ms apart: the first click's off-timer has fired 1000 ms
\* after it and turned the relay off, the second click's is still 500 ms away
C16_Witness ==
  /\ ngest = 2
  /\ nfired = 1
  /\ lastGesture.name = "clickOne"
  /\ mistForDurationRepeatingTask = 0
  /\ sinceGesture = 500
  /\ event.name = "mistOffFromTimer"
  /\ lastCall.wrote
  /\ ~mistState
  /\ \E i \in 1..Len(tasks) : IsOffTimer(tasks[i]) /\ tasks[i].remaining = 500

\* C17: in every reachable state the timer holds at most one timeout task,
\* and it is the task the timeout handle names.
C17_OneTimeoutTask ==
  /\ CountOf(tasks, "implementTimeoutFromTimer") <= 1
  /\ \A i \in 1..Len(tasks) :
       IsTimeoutTask(tasks[i]) => tasks[i].id = timeoutTimerTask
C17_Witness ==
  /\ ngest >= 2
  /\ nfired >= 1
  /\ event.name \in GestureNames
  /\ pre.timeouts = 1
  /\ CountOf(tasks, "implementTimeoutFromTimer") = 1

\* C18: the button poll registered by buttonSetup is scheduled in every
\* reachable state.  (Violated: timer.cancel() in cancelAllTimerTasks removes
\* every task, the poll included, when doubleclickThree runs and when the
\* timeout fires.)
C18_PollStaysScheduled == PollLive

\* C19: in every reachable state in which the mist relay is on and button
\* One is not in a long press, a one-shot mist-off task is pending.
C19_MistOnHasOffTimer ==
  (mistState /\ ~isLongPressed["One"]) =>
    \E i \in 1..Len(tasks) : IsOffTimer(tasks[i]) /\ ~tasks[i].repeat
C19_Witness ==
  /\ mistState
  /\ ~isLongPressed["One"]
  /\ event.name = "mistForDurationFromTimer"
  /\ CountOf(tasks, "mistOffFromTimer") >= 1

\* C19, the consequence: while loop() keeps ticking, a relay that is on
\* outside a long press of button One is off (or in such a long press) later
C19_EventuallyOff ==
  (mistState /\ ~isLongPressed["One"]) ~> (~mistState \/ isLongPressed["One"])

\* C20: the fan duty is written by setup (255, that is 100%), by clickTwo
\* (255) and by doubleclickTwo, doubleclickThree and the timeout firing (0),
\* and by no other step: no callback of button One, no off-timer and no
\* cycle firing writes or changes it.  No callback of button Two writes the
\* relay or changes the mist tasks or the repeating-cycle handle.
ButtonOneNames ==
  {"clickOne", "doubleclickOne", "multiClickOne", "longPressStartOne",
   "longPressOne", "longPressStopOne"}
ButtonTwoNames ==
  {"clickTwo", "doubleclickTwo", "multiClickTwo", "longPressStartTwo",
   "longPressTwo", "longPressStopTwo"}
C20_FanMistIndependent ==
  /\ [](event.name = "setup" =>
          /\ lastPwm.called /\ lastPwm.duty = 255
          /\ fanDuty = 255)
  /\ [][/\ (lastPwm'.called \/ fanDuty' # fanDuty) =>
             /\ lastPwm'.called
             /\ fanDuty' = lastPwm'.duty
             /\ \/ event'.name = "clickTwo" /\ fanDuty' = 255
                \/ /\ event'.name \in {"doubleclickTwo", "doubleclickThree",
                                        "implementTimeoutFromTimer"}
                   /\ fanDuty' = 0
        /\ event'.name \in {"clickTwo", "doubleclickTwo", "doubleclickThree",
                             "implementTimeoutFromTimer"} => lastPwm'.called
        /\ event'.name \in ButtonOneNames \cup {"mistOffFromTimer",
                                                 "mistForDurationFromTimer"} =>
             /\ ~lastPwm'.called
             /\ fanDuty' = fanDuty
        /\ event'.name \in ButtonTwoNames =>
             /\ mistState' = mistState
             /\ mistPin' = mistPin
             /\ ~lastCall'.called
             /\ mistForDurationRepeatingTask' = mistForDurationRepeatingTask
             /\ \E d \in GestureDelays :
                  MistTasksOf(tasks') = MistTasksOf(Elapse(tasks, d))]_vars
C20_Witness ==
  /\ event.name = "doubleclickTwo"
  /\ mistState
  /\ pre.offTimers >= 1
  /\ CountOf(tasks, "mistOffFromTimer") = pre.offTimers
  /\ pre.fanDuty = 255
  /\ fanDuty = 0

====
